---- MODULE Spec2Model ----
(***************************************************************************)
(* A model of script/project/popup.js: the four popup flows (static clone, *)
(* pending jobs, branch selector, external fragment), the window resize    *)
(* and dismissal events that act on their nodes, and the force-build form  *)
(* validation handler.                                                     *)
(*                                                                         *)
(* Strings whose contents the code inspects (URLs, input names) are        *)
(* sequences of one-character strings.                                     *)
(***************************************************************************)
EXTENDS Integers, Sequences, FiniteSets, TLC

\* Number of popup flows that can be started in one page life.
MaxFlows == 2

\* Number of inputs of the force-build form.
NumFields == 3

\* Number of times validateForm is run on the same form container.
MaxReg == 2

VARIABLES
    flow,        \* per started flow: its nodes, its fetch, its handlers
    orig,        \* the info box that follows the static-popup trigger
    page,        \* the components of the current document URL
    classResize, \* resize handlers bound to $('.more-info-box-js')
    lastEvent,   \* "resize" when the last event was a window resize
    resizeCalls, \* nodes that the last resize event called jCenter on
    fields,      \* the inputs of the force-build form
    banners,     \* .error-input nodes in the form
    msgHidden,   \* the form's .form-message has been hidden
    handlers,    \* click handlers bound to the form's .grey-btn
    outcome,     \* what the last click on .grey-btn led to, "none" after
                 \* any other event
    inited,      \* popup.init() has run
    triggers,    \* the trigger elements of the document
    lastClick    \* the handlers the last click on a trigger ran

popupVars == <<flow, orig, page, classResize, lastEvent, resizeCalls>>

formVars == <<fields, banners, msgHidden, handlers, outcome>>

clickVars == <<inited, triggers, lastClick>>

vars == <<flow, orig, page, classResize, lastEvent, resizeCalls,
          fields, banners, msgHidden, handlers, outcome,
          inited, triggers, lastClick>>

Flows == 1 .. MaxFlows

-----------------------------------------------------------------------------
(* The page URL and the anchor-element parser of lines 23-26 and 103-106.  *)

\* First position of character c in s, 0 when absent (String.indexOf + 1).
IndexOf(s, c) ==
    IF \E i \in 1 .. Len(s) : s[i] = c
    THEN CHOOSE i \in 1 .. Len(s) : s[i] = c /\ \A j \in 1 .. (i - 1) : s[j] # c
    ELSE 0

\* s up to, not including, the first c; all of s when c is absent.
Before(s, c) == IF IndexOf(s, c) = 0 THEN s ELSE SubSeq(s, 1, IndexOf(s, c) - 1)

\* s from its position i on.
From(s, i) == SubSeq(s, i, Len(s))

\* Page URLs the browser can be on: scheme, host (with port), path, and an
\* optional query ("?...") and hash ("#...").
Pages ==
    { [scheme |-> <<"h">>, host |-> <<"x">>, path |-> <<"/", "a">>,
       query |-> <<>>, hash |-> <<>>],
      [scheme |-> <<"h">>, host |-> <<"x">>, path |-> <<"/", "a">>,
       query |-> <<>>, hash |-> <<"#", "f", "?", "c">>],
      [scheme |-> <<"h">>, host |-> <<"x", ":", "8">>, path |-> <<"/">>,
       query |-> <<"?", "q">>, hash |-> <<"#", "/", "d">>],
      [scheme |-> <<"h">>, host |-> <<"y">>, path |-> <<"/", "a", "/", "b">>,
       query |-> <<"?", "q", "/", "b">>, hash |-> <<>>] }

NoPage == [scheme |-> <<>>, host |-> <<>>, path |-> <<>>, query |-> <<>>, hash |-> <<>>]

\* document.URL / window.location.href: the serialised URL.
Href(p) == p.scheme \o <<":", "/", "/">> \o p.host \o p.path \o p.query \o p.hash

\* parser.protocol: the scheme with its colon.
Protocol(u) == SubSeq(u, 1, IndexOf(u, ":"))

\* What follows "scheme://" up to the query or the hash.
Authority(u) == From(Before(Before(u, "#"), "?"), IndexOf(u, ":") + 3)

\* parser.host: host and port.
Host(u) == Before(Authority(u), "/")

\* Variant of Pathname: cut at the query only, so a hash is kept.
PathnameKeepsHash(u) == From(Before(u, "?"), IndexOf(u, ":") + 3 + Len(Host(u)))

\* parser.pathname: from the first slash after the host, without query or hash.
Pathname(u) ==
    IF IndexOf(Authority(u), "/") = 0 THEN <<"/">>
    ELSE From(Authority(u), IndexOf(Authority(u), "/"))

\* Line 106: parser.protocol + '//' + parser.host + parser.pathname.
ActionUrl(u) == Protocol(u) \o <<"/", "/">> \o Host(u) \o Pathname(u)

-----------------------------------------------------------------------------
(* Flows.                                                                  *)

\* JSON payloads of the build-queue endpoint.
Payloads == { [jobs |-> <<>>], [jobs |-> <<"j1", "j2">>] }

ContentTypes == {"form", "other"}

NoFlow ==
    [kind |-> "none", contentType |-> "none", preloader |-> FALSE,
     fetch |-> "none", attached |-> FALSE, positioned |-> FALSE,
     visible |-> FALSE, fadeCb |-> FALSE, reqCb |-> FALSE,
     closeRegs |-> 0, bound |-> 0, detached |-> 0, resizeRegs |-> 0,
     trace |-> <<>>, openPage |-> NoPage, actionUrl |-> <<>>, data |-> {},
     ctx |-> {},
     formAction |-> <<>>, slot |-> 0, content |-> <<>>, validateRegs |-> 0]

OrigBox == [inPlace |-> TRUE, visible |-> FALSE, positioned |-> FALSE]

\* The next unused flow slot (flows are numbered in the order they start, which
\* is also the order their nodes are appended to body).
Started == {f \in Flows : flow[f].kind # "none"}

NextFlow == Cardinality(Started) + 1

\* $('#content1'): the content slot of the first outer frame in the document.
Frames == {f \in Flows : flow[f].kind \in {"branch", "external"} /\ flow[f].attached}

Content1 == IF Frames = {} THEN 0 ELSE CHOOSE f \in Frames : \A g \in Frames : f <= g

NotResize == lastEvent' = "other" /\ resizeCalls' = {}

PopupInit ==
    /\ flow = [f \in Flows |-> NoFlow]
    /\ orig = OrigBox
    /\ page \in Pages
    /\ classResize = 0
    /\ lastEvent = "other"
    /\ resizeCalls = {}

\* helpers.closePopup(node): one more dismissal binding for the node.
closePopup(r) == [r EXCEPT !.closeRegs = @ + 1, !.bound = @ + 1,
                           !.trace = Append(@, "closePopup")]

\* helpers.jCenter(node): position the node in the viewport.
jCenter(r) == [r EXCEPT !.positioned = TRUE, !.trace = Append(@, "jCenter")]

\* node.fadeIn('fast'): the node becomes visible.
fadeIn(r) == [r EXCEPT !.visible = TRUE, !.trace = Append(@, "fadeIn")]

\* $(window).resize(function () { helpers.jCenter(node) }).
resizeBind(r) == [r EXCEPT !.resizeRegs = @ + 1, !.trace = Append(@, "resizeBind")]

\* Lines 88-95: the clone after nonAjaxPopup has attached, centered and faded
\* it in and bound its resize handler.
StaticNode ==
    resizeBind([fadeIn(jCenter(
        [NoFlow EXCEPT !.kind = "static", !.attached = TRUE,
                       !.trace = <<"clone", "appendTo">>]))
      EXCEPT !.fadeCb = TRUE])

\* Variant of nonAjaxPopup: the info box itself, not a clone, is moved to body.
nonAjaxPopupNoClone ==
    /\ NextFlow \in Flows
    /\ flow' = [flow EXCEPT ![NextFlow] =
            resizeBind([fadeIn(jCenter(
                [NoFlow EXCEPT !.kind = "static", !.attached = TRUE,
                               !.trace = <<"appendTo">>]))
              EXCEPT !.fadeCb = TRUE])]
    /\ orig' = [inPlace |-> FALSE, visible |-> TRUE, positioned |-> TRUE]
    /\ NotResize
    /\ UNCHANGED <<page, classResize, formVars, clickVars>>

\* Lines 87-96: clone the info box, attach, center and fade in the clone,
\* bind its resize handler; closePopup waits for the fade to complete.
nonAjaxPopup ==
    /\ NextFlow \in Flows
    /\ flow' = [flow EXCEPT ![NextFlow] = StaticNode]
    /\ NotResize
    /\ UNCHANGED <<orig, page, classResize, formVars, clickVars>>

\* Lines 90-92: the fadeIn completion callback of the static popup.
nonAjaxFadeInDone ==
    \E f \in Flows :
        /\ flow[f].kind = "static"
        /\ flow[f].fadeCb
        /\ flow' = [flow EXCEPT ![f] = closePopup([@ EXCEPT !.fadeCb = FALSE])]
        /\ NotResize
        /\ UNCHANGED <<orig, page, classResize, formVars, clickVars>>

\* Lines 99-110: the flow pendingJobs starts on the page pg.
PendingNode(pg) ==
    [NoFlow EXCEPT !.kind = "pending", !.preloader = TRUE,
                   !.actionUrl = ActionUrl(Href(pg)),
                   !.fetch = "pending",
                   !.trace = <<"preloader", "fetch">>]

\* Variant of pendingJobs: the request is issued before the preloader is shown.
pendingJobsFetchFirst ==
    /\ NextFlow \in Flows
    /\ flow' = [flow EXCEPT ![NextFlow] =
            [NoFlow EXCEPT !.kind = "pending", !.preloader = TRUE,
                           !.actionUrl = ActionUrl(Href(page)),
                           !.fetch = "pending",
                           !.trace = <<"fetch", "preloader">>]]
    /\ NotResize
    /\ UNCHANGED <<orig, page, classResize, formVars, clickVars>>

\* Lines 97-110: show the preloader, compute actionUrl from document.URL,
\* issue the JSON request.
pendingJobs ==
    /\ NextFlow \in Flows
    /\ flow' = [flow EXCEPT ![NextFlow] = PendingNode(page)]
    /\ NotResize
    /\ UNCHANGED <<orig, page, classResize, formVars, clickVars>>

\* Line 117: the data handed to Mustache.render for the pending-jobs fragment.
PendingJobsContext(data, actionUrl) == [pendingJobs |-> data, actionUrl |-> actionUrl]

\* Variant of pendingJobsSuccess: every preloader of the document is removed.
pendingJobsSuccessRemovesAll ==
    \E f \in Flows, data \in Payloads :
        /\ flow[f].kind = "pending"
        /\ flow[f].fetch = "pending"
        /\ flow' = [g \in Flows |->
                IF g = f
                THEN closePopup(fadeIn(jCenter(
                        [flow[f] EXCEPT !.fetch = "ok", !.preloader = FALSE,
                              !.data = {data},
                              !.ctx = {PendingJobsContext(data, flow[f].actionUrl)},
                              !.attached = TRUE,
                              !.trace = @ \o <<"response", "removePreloader",
                                               "render", "appendTo">>])))
                ELSE [flow[g] EXCEPT !.preloader = FALSE]]
        /\ NotResize
        /\ UNCHANGED <<orig, page, classResize, formVars, clickVars>>

\* Lines 115-122: the success callback of the JSON request.
pendingJobsSuccess ==
    \E f \in Flows, data \in Payloads :
        /\ flow[f].kind = "pending"
        /\ flow[f].fetch = "pending"
        /\ flow' = [flow EXCEPT ![f] =
                closePopup(fadeIn(jCenter(
                    [@ EXCEPT !.fetch = "ok", !.preloader = FALSE,
                              !.data = {data},
                              !.ctx = {PendingJobsContext(data, flow[f].actionUrl)},
                              !.attached = TRUE,
                              !.trace = @ \o <<"response", "removePreloader",
                                               "render", "appendTo">>])))]
        /\ NotResize
        /\ UNCHANGED <<orig, page, classResize, formVars, clickVars>>

\* Lines 129-140: the flow codebasesBranches starts on the page pg.
BranchNode(pg) ==
    [NoFlow EXCEPT !.kind = "branch", !.preloader = TRUE,
                   !.attached = TRUE, !.openPage = pg,
                   !.fetch = "pending",
                   !.trace = <<"preloader", "appendTo", "fetch">>]

\* Variant of codebasesBranches: closePopup is registered when the frame is
\* attached, before the request.
codebasesBranchesClosableEarly ==
    /\ NextFlow \in Flows
    /\ flow' = [flow EXCEPT ![NextFlow] =
            closePopup(
                [NoFlow EXCEPT !.kind = "branch", !.preloader = TRUE,
                               !.attached = TRUE, !.openPage = page,
                               !.fetch = "pending",
                               !.trace = <<"preloader", "appendTo", "fetch">>])]
    /\ NotResize
    /\ UNCHANGED <<orig, page, classResize, formVars, clickVars>>

\* Lines 125-140: preloader, empty outer frame attached, GET of the form page.
codebasesBranches ==
    /\ NextFlow \in Flows
    /\ flow' = [flow EXCEPT ![NextFlow] = BranchNode(page)]
    /\ NotResize
    /\ UNCHANGED <<orig, page, classResize, formVars, clickVars>>

\* The #getForm forms of the document fl, in document order: the forms of the
\* branch-selector responses held by the content slots of the attached frames
\* 1 .. n (a form is named by the flow whose response brought it).
RECURSIVE DocForms(_, _)
DocForms(fl, n) ==
    IF n = 0 THEN <<>>
    ELSE DocForms(fl, n - 1) \o
         (IF fl[n].attached
          THEN SelectSeq(fl[n].content, LAMBDA g : fl[g].kind = "branch")
          ELSE <<>>)

\* $('#getForm'): the first such form of the document.
FirstGetForm(fl) == Head(DocForms(fl, MaxFlows))

\* Variant of FormActionUrl: the URL the page had when the flow was opened.
FormActionUrlAtOpen(f) == Href(flow[f].openPage)

\* Line 171: window.location.href, read when the done callback of flow f runs.
FormActionUrl(f) == Href(page)

\* Lines 141-178: the done callback of the branch-selector request.
codebasesBranchesDone ==
    \E f \in Flows :
        /\ flow[f].kind = "branch"
        /\ flow[f].fetch = "pending"
        /\ LET s == Content1
               ins == [flow EXCEPT ![s].content = Append(@, f)]
               own == closePopup(
                        [resizeBind(fadeIn(jCenter(
                            [ins[f] EXCEPT !.fetch = "ok", !.slot = s,
                                           !.preloader = FALSE,
                                           !.trace = @ \o <<"response", "removePreloader",
                                                            "insertContent">>])))
                         EXCEPT !.reqCb = TRUE])
               one == [ins EXCEPT ![f] = own]
           IN  flow' = [one EXCEPT ![FirstGetForm(one)].formAction = FormActionUrl(f)]
        /\ NotResize
        /\ UNCHANGED <<orig, page, classResize, formVars, clickVars>>

\* Lines 162-169: the selectors module has loaded; one more resize handler,
\* bound to every .more-info-box-js node of the document.
requireSelectorsLoaded ==
    \E f \in Flows :
        /\ flow[f].reqCb
        /\ flow' = [flow EXCEPT ![f].reqCb = FALSE]
        /\ classResize' = classResize + 1
        /\ NotResize
        /\ UNCHANGED <<orig, page, formVars, clickVars>>

\* Lines 195-208: the flow externalContentPopup starts for a trigger whose
\* data-contenttype is ct.
ExternalNode(ct) ==
    [NoFlow EXCEPT !.kind = "external", !.contentType = ct,
                   !.preloader = TRUE, !.attached = TRUE,
                   !.fetch = "pending",
                   !.trace = <<"preloader", "appendTo", "fetch">>]

\* Lines 193-208: preloader, outer frame attached, GET of the current page.
externalContentPopup ==
    \E ct \in ContentTypes :
        /\ NextFlow \in Flows
        /\ flow' = [flow EXCEPT ![NextFlow] = ExternalNode(ct)]
        /\ NotResize
        /\ UNCHANGED <<orig, page, classResize, formVars, clickVars>>

\* Variant of FormSetup: the content type is not looked at.
FormSetupAlways(r) == [r EXCEPT !.trace = @ \o <<"setFullName", "validateForm">>]

\* Lines 215-218: the identity fields and the validator, for a form only.
FormSetup(r) ==
    IF r.contentType = "form"
    THEN [r EXCEPT !.trace = @ \o <<"setFullName", "validateForm">>]
    ELSE r

\* Lines 208-228: the done callback of the external-fragment request.
externalContentDone ==
    \E f \in Flows :
        /\ flow[f].kind = "external"
        /\ flow[f].fetch = "pending"
        /\ LET s == Content1
               ins == [flow EXCEPT ![s].content = Append(@, f)]
               own == closePopup(resizeBind(fadeIn(jCenter(FormSetup(
                        [ins[f] EXCEPT !.fetch = "ok", !.slot = s,
                                        !.preloader = FALSE,
                                        !.trace = @ \o <<"response", "removePreloader",
                                                         "insertContent">>])))))
               one == [ins EXCEPT ![f] = own]
           IN  flow' = IF flow[f].contentType = "form"
                       THEN [one EXCEPT ![s].validateRegs = @ + 1]
                       ELSE one
        /\ NotResize
        /\ UNCHANGED <<orig, page, classResize, formVars, clickVars>>

\* Variant of fetchFail: a failure handler that tears the preloader down.
fetchFailRemovesPreloader ==
    \E f \in Flows :
        /\ flow[f].fetch = "pending"
        /\ flow' = [flow EXCEPT ![f].fetch = "failed", ![f].preloader = FALSE]
        /\ NotResize
        /\ UNCHANGED <<orig, page, classResize, formVars, clickVars>>

\* A request fails: neither $.ajax (110-123) nor $.get (140, 208) is given a
\* failure callback, so no handler of the flow runs.
fetchFail ==
    \E f \in Flows :
        /\ flow[f].fetch = "pending"
        /\ flow' = [flow EXCEPT ![f].fetch = "failed"]
        /\ NotResize
        /\ UNCHANGED <<orig, page, classResize, formVars, clickVars>>

\* Nodes whose own resize handler (lines 93-95, 158-160, 221-223) is bound.
OwnResizeTargets == {f \in Flows : flow[f].resizeRegs > 0}

\* $('.more-info-box-js') at resize time: the static clones in the document.
ClassResizeTargets ==
    IF classResize > 0
    THEN {f \in Flows : flow[f].kind = "static" /\ flow[f].attached}
    ELSE {}

\* A window resize event: every bound resize handler runs.
windowResize ==
    /\ lastEvent' = "resize"
    /\ resizeCalls' = OwnResizeTargets \cup ClassResizeTargets
    /\ orig' = IF classResize > 0 /\ orig.inPlace
               THEN [orig EXCEPT !.positioned = TRUE]
               ELSE orig
    /\ UNCHANGED <<flow, page, classResize, formVars, clickVars>>

\* The user dismisses a node (its close control, or a click outside it): every
\* live binding made by closePopup(node) detaches it and is unbound.
dismiss ==
    \E f \in Flows :
        /\ flow[f].bound > 0
        /\ flow' = [flow EXCEPT ![f] =
                [@ EXCEPT !.attached = FALSE, !.visible = FALSE,
                          !.detached = @ + flow[f].bound, !.bound = 0]]
        /\ NotResize
        /\ UNCHANGED <<orig, page, classResize, formVars, clickVars>>

\* The page URL changes without a page load (hash or history change).
navigate ==
    \E p \in Pages :
        /\ p # page
        /\ p.scheme = page.scheme /\ p.host = page.host
        /\ page' = p
        /\ NotResize
        /\ UNCHANGED <<flow, orig, classResize, formVars, clickVars>>

Next ==
    \/ nonAjaxPopup
    \/ nonAjaxFadeInDone
    \/ pendingJobs
    \/ pendingJobsSuccess
    \/ codebasesBranches
    \/ codebasesBranchesDone
    \/ requireSelectorsLoaded
    \/ externalContentPopup
    \/ externalContentDone
    \/ fetchFail
    \/ windowResize
    \/ dismiss
    \/ navigate

-----------------------------------------------------------------------------
(* The force-build form and validateForm (lines 52-86).                    *)

Fields == 1 .. NumFields

\* pat occurs in s (String.indexOf(pat) >= 0).
Contains(s, pat) ==
    \E i \in 1 .. (Len(s) - Len(pat) + 1) : SubSeq(s, i, i + Len(pat) - 1) = pat

RevisionWord == <<"r", "e", "v", "i", "s", "i", "o", "n">>

\* The inputs a force-build form can hold: type and name.
FieldKinds ==
    { [type |-> "text", name |-> RevisionWord],
      [type |-> "text", name |-> <<"a", "_">> \o RevisionWord \o <<"_", "1">>],
      [type |-> "text", name |-> <<"r", "e", "v", "i", "s", "o", "n">>],
      [type |-> "hidden", name |-> RevisionWord],
      [type |-> "checkbox", name |-> <<"b">> \o RevisionWord] }

Values == {<<>>, <<"v">>}

\* Variant of Excluded: hidden inputs are not left out.
ExcludedNoHidden(fl) == fl.type \in {"button", "checkbox", "submit"}

\* Line 54: ':button, :hidden, :checkbox, :submit'.
Excluded(fl) == fl.type \in {"button", "hidden", "checkbox", "submit"}

\* Lines 57-61: the inputs that are not excluded and whose name contains
\* "revision".
Rev(fs) == {i \in Fields : ~Excluded(fs[i]) /\ Contains(fs[i].name, RevisionWord)}

\* Lines 63-65: those of them whose value is the empty string.
EmptyRev(fs) == {i \in Rev(fs) : fs[i].value = <<>>}

\* Variant of PartialFill: any empty revision field, even when all are.
PartialFillAnyEmpty(fs) == Cardinality(EmptyRev(fs)) > 0

\* Line 67: some, not all, revision fields are empty.
PartialFill(fs) ==
    /\ Cardinality(EmptyRev(fs)) > 0
    /\ Cardinality(EmptyRev(fs)) < Cardinality(Rev(fs))

\* Variant of Mark: the class is added, never removed.
MarkOnlyAdds(fs) ==
    [i \in Fields |->
        IF i \in Rev(fs) /\ fs[i].value = <<>>
        THEN [fs[i] EXCEPT !.notValid = TRUE]
        ELSE fs[i]]

\* Lines 69-75: mark the empty revision fields, unmark the others.
Mark(fs) ==
    [i \in Fields |->
        IF i \in Rev(fs)
        THEN [fs[i] EXCEPT !.notValid = (fs[i].value = <<>>)]
        ELSE fs[i]]

\* Variant of PrependBanner: no presence test.
PrependBannerUnguarded(n) == n + 1

\* Lines 79-83: prepend the error banner unless the form holds one.
PrependBanner(n) == IF n = 0 THEN 1 ELSE n

\* Variant of ClickHandler: the inline form-message is left as it is.
ClickHandlerKeepsMessage(st) ==
    IF PartialFill(st.fields)
    THEN [fields |-> Mark(st.fields), msgHidden |-> st.msgHidden,
          banners |-> PrependBanner(st.banners), prevented |-> TRUE]
    ELSE st

\* Lines 55-86: one run of the click handler on the form st.
ClickHandler(st) ==
    IF PartialFill(st.fields)
    THEN [fields |-> Mark(st.fields), msgHidden |-> TRUE,
          banners |-> PrependBanner(st.banners), prevented |-> TRUE]
    ELSE st

\* A click runs every handler bound to the button, in binding order.
RECURSIVE RunHandlers(_, _)
RunHandlers(st, n) == IF n = 0 THEN st ELSE RunHandlers(ClickHandler(st), n - 1)

FormInit ==
    /\ fields \in [Fields -> {[type |-> k.type, name |-> k.name, value |-> v,
                              notValid |-> FALSE] : k \in FieldKinds, v \in Values}]
    /\ banners = 0
    /\ msgHidden = FALSE
    /\ handlers = 0
    /\ outcome = "none"

\* Lines 52-55: validateForm(formContainer) binds one more click handler.
validateForm ==
    /\ handlers < MaxReg
    /\ handlers' = handlers + 1
    /\ outcome' = "none"
    /\ UNCHANGED <<fields, banners, msgHidden, popupVars, clickVars>>

\* The user types into, or clears, an input.
editField ==
    \E i \in Fields, v \in Values :
        /\ fields[i].value # v
        /\ fields' = [fields EXCEPT ![i].value = v]
        /\ outcome' = "none"
        /\ UNCHANGED <<banners, msgHidden, handlers, popupVars, clickVars>>

\* A click on the form's .grey-btn: a submit attempt.
submitClick ==
    LET after == RunHandlers([fields |-> fields, msgHidden |-> msgHidden,
                              banners |-> banners, prevented |-> FALSE], handlers)
    IN  /\ fields' = after.fields
        /\ msgHidden' = after.msgHidden
        /\ banners' = after.banners
        /\ outcome' = IF after.prevented THEN "blocked" ELSE "allowed"
        /\ UNCHANGED <<handlers, popupVars, clickVars>>

NextForm ==
    \/ validateForm
    \/ editField
    \/ submitClick

\* The form of a page on which no popup flow is being run.
FormIdle ==
    /\ fields = [i \in Fields |-> [type |-> "text", name |-> RevisionWord,
                                   value |-> <<>>, notValid |-> FALSE]]
    /\ banners = 0
    /\ msgHidden = FALSE
    /\ handlers = 0
    /\ outcome = "none"

\* A page whose triggers are not looked at: init has run on a document
\* without trigger elements.
NoClick == [marker |-> "none", inTable |-> FALSE, prevented |-> 0, ops |-> <<>>]

ClickIdle ==
    /\ inited = TRUE
    /\ triggers = {}
    /\ lastClick = NoClick

Init == PopupInit /\ FormIdle /\ ClickIdle

\* The popup flows of one page.
Spec == Init /\ [][Next]_vars

\* The page of the popup that shows the form; no flow is started on it.
PopupIdle ==
    /\ flow = [f \in Flows |-> NoFlow]
    /\ orig = OrigBox
    /\ page = [scheme |-> <<"h">>, host |-> <<"x">>, path |-> <<"/", "a">>,
               query |-> <<>>, hash |-> <<>>]
    /\ classResize = 0
    /\ lastEvent = "other"
    /\ resizeCalls = {}

InitForm == PopupIdle /\ FormInit /\ ClickIdle

\* The force-build form of one popup.
SpecForm == InitForm /\ [][NextForm]_vars

-----------------------------------------------------------------------------
(* The click bindings of popup.init, lines 7-52.                           *)

MaxTriggers == 2

\* The markers init looks for: .popup-btn-js-2, .popup-btn-js, #getBtn and
\* .ajaxbtn.
Markers == {"popup-btn-js-2", "popup-btn-js", "getBtn", "ajaxbtn"}

\* Lines 10, 41, 47: the markers init binds a handler to on the element.
DirectMarkers == {"popup-btn-js-2", "getBtn", "ajaxbtn"}

\* Lines 16, 21: the markers #tablesorterRt delegates a handler for.
DelegatedMarkers == {"popup-btn-js-2", "popup-btn-js"}

\* A trigger element: its marker, whether it sits inside #tablesorterRt, and
\* whether init has bound a handler to the element itself.
Unbound == [marker : Markers, inTable : BOOLEAN, direct : {FALSE}]

\* The operation each marker stands for.
OpOf(mk) ==
    CASE mk = "popup-btn-js-2" -> "nonAjaxPopup"
      [] mk = "popup-btn-js" -> "pendingJobs"
      [] mk = "getBtn" -> "codebasesBranches"
      [] mk = "ajaxbtn" -> "externalContentPopup"

\* Lines 23-27: the endpoint handed to pendingJobs for the builder name nm.
BuildQueueUrl(u, nm) ==
    Protocol(u) \o <<"/", "/">> \o Host(u)
        \o <<"/", "j", "s", "o", "n", "/", "q", "?", "b", "=">> \o nm

BuilderName == <<"b", "1">>

\* One handler call: the operation and its argument.
Call(mk, pg) ==
    [op |-> OpOf(mk),
     arg |-> IF mk = "popup-btn-js" THEN BuildQueueUrl(Href(pg), BuilderName)
             ELSE <<>>]

\* The handlers a click on t runs: the one bound to the element, then the
\* one delegated to the table the click bubbles up to.
HandlersOf(t, pg) ==
    (IF t.direct THEN <<Call(t.marker, pg)>> ELSE <<>>)
        \o (IF inited /\ t.inTable /\ t.marker \in DelegatedMarkers
            THEN <<Call(t.marker, pg)>>
            ELSE <<>>)

\* The node an operation starts its flow with.
NodeOf(c, pg, ct) ==
    CASE c.op = "nonAjaxPopup" -> StaticNode
      [] c.op = "pendingJobs" -> PendingNode(pg)
      [] c.op = "codebasesBranches" -> BranchNode(pg)
      [] c.op = "externalContentPopup" -> ExternalNode(ct)

\* The flows after the first n of the calls cs have run, one after the other.
RECURSIVE RunCalls(_, _, _, _, _)
RunCalls(fl, cs, n, pg, ct) ==
    IF n = 0 THEN fl
    ELSE LET before == RunCalls(fl, cs, n - 1, pg, ct)
             slot == Cardinality({f \in Flows : before[f].kind # "none"}) + 1
         IN  [before EXCEPT ![slot] = NodeOf(cs[n], pg, ct)]

\* A document that init has not run on yet.
ClickInit ==
    /\ inited = FALSE
    /\ triggers \in {T \in SUBSET Unbound : Cardinality(T) <= MaxTriggers}
    /\ lastClick = NoClick

\* Lines 7-52: popup.init binds the click handlers to the elements that are
\* in the document, and the delegated ones to the table.
init ==
    /\ ~inited
    /\ inited' = TRUE
    /\ triggers' = {[t EXCEPT !.direct = (t.marker \in DirectMarkers)] : t \in triggers}
    /\ UNCHANGED <<lastClick, popupVars, formVars>>

\* The build queue is redrawn: an element is added to the document.
addTrigger ==
    \E t \in Unbound :
        /\ Cardinality(triggers) < MaxTriggers
        /\ t \notin triggers
        /\ triggers' = triggers \cup {t}
        /\ UNCHANGED <<inited, lastClick, popupVars, formVars>>

\* A click on a trigger element: every handler it reaches calls
\* e.preventDefault() and the open operation.
click ==
    \E t \in triggers, ct \in ContentTypes :
        LET cs == HandlersOf(t, page)
        IN  /\ inited
            /\ Cardinality(Started) + Len(cs) <= MaxFlows
            /\ lastClick' = [marker |-> t.marker, inTable |-> t.inTable,
                             prevented |-> Len(cs), ops |-> cs]
            /\ flow' = RunCalls(flow, cs, Len(cs), page, ct)
            /\ NotResize
            /\ UNCHANGED <<orig, page, classResize, inited, triggers, formVars>>

NextClick ==
    \/ init
    \/ addTrigger
    \/ click

InitClick == PopupIdle /\ FormIdle /\ ClickInit

\* The trigger elements of one page and the clicks on them.
SpecClick == InitClick /\ [][NextClick]_vars

-----------------------------------------------------------------------------
(* Properties.                                                             *)

\* The flow has a popup root node (clone, pending-jobs popup or outer frame).
HasNode(f) == flow[f].attached \/ flow[f].detached > 0

\* No callback of the flow is outstanding.
Settled(f) == flow[f].kind # "none" /\ flow[f].fetch # "pending" /\ ~flow[f].fadeCb

\* The popup is open: its node is in the document and has been revealed.
IsOpen(f) == flow[f].attached /\ flow[f].visible

\* C1: every popup root node that has been attached is detached at most once,
\* and none is left attached with no dismissal binding once its flow has
\* nothing more to run, whether or not the flow's fetch succeeded.
C1_DetachedExactlyOnce ==
    \A f \in Flows :
        /\ flow[f].detached <= 1
        /\ (flow[f].attached /\ Settled(f)) => flow[f].bound > 0

\* C2: as long as only static popups act on the info box (no class-wide resize
\* handler of a branch-selector flow is bound), the original info box is as it
\* was; every nonAjaxPopup call adds one attached clone and leaves the
\* original and all other flows alone; closing one clone leaves the original
\* and every other flow alone.
C2_CloneInvariant ==
    /\ [](classResize = 0 => orig = OrigBox)
    /\ [][\A f \in Flows :
            /\ (flow[f].kind = "none" /\ flow'[f].kind = "static") =>
                    /\ orig' = orig
                    /\ flow'[f].attached /\ flow'[f].detached = 0
                    /\ \A g \in Flows \ {f} : flow'[g] = flow[g]
            /\ (flow[f].kind = "static" /\ flow[f].attached /\ ~flow'[f].attached) =>
                    /\ orig' = orig
                    /\ \A g \in Flows \ {f} : flow'[g] = flow[g]]_vars

\* C2 witness: two clones were made, one has been closed, the other is still
\* open, and the original is untouched.
C2_Witness ==
    \E f, g \in Flows :
        /\ flow[f].kind = "static" /\ flow[g].kind = "static"
        /\ flow[f].detached = 1 /\ ~flow[f].attached
        /\ IsOpen(g) /\ flow[g].bound = 1
        /\ orig = OrigBox

\* C3: with at least two revision fields, a submit attempt is blocked and the
\* form holds exactly one banner when some but not all of them are empty, and
\* is not blocked when none or all of them are empty.
C3_PartialFillBlocks ==
    (outcome # "none" /\ handlers >= 1 /\ Cardinality(Rev(fields)) >= 2) =>
        IF /\ Cardinality(EmptyRev(fields)) > 0
           /\ Cardinality(EmptyRev(fields)) < Cardinality(Rev(fields))
        THEN outcome = "blocked" /\ banners = 1
        ELSE outcome = "allowed"

\* C3 witness: three revision fields, one or two of them empty, and the
\* attempt was blocked.
C3_Witness ==
    /\ outcome = "blocked" /\ handlers >= 1
    /\ Cardinality(Rev(fields)) = 3
    /\ Cardinality(EmptyRev(fields)) \in {1, 2}
    /\ banners = 1

\* C4 as claimed: after any submit attempt, blocked or not, a revision field
\* carries the invalid-state mark only if its value is empty.
C4_MarksFollowValues ==
    (outcome # "none" /\ handlers >= 1) =>
        \A i \in Rev(fields) : fields[i].notValid => fields[i].value = <<>>

\* C4 as amended: a blocked submit attempt recomputes the marks (a revision
\* field is marked exactly when its value is empty); an attempt that is not
\* blocked leaves every mark as it was.
C4_MarksRecomputedWhenBlocked ==
    [][(outcome' # "none" /\ handlers >= 1) =>
            \A i \in Rev(fields) :
                IF outcome' = "blocked"
                THEN fields'[i].notValid = (fields'[i].value = <<>>)
                ELSE fields'[i].notValid = fields[i].notValid]_vars

\* C4 witness: a blocked attempt has marked an empty revision field and left a
\* filled-in one unmarked.
C4_Witness ==
    /\ outcome = "blocked"
    /\ \E i, j \in Rev(fields) :
        /\ fields[i].notValid /\ fields[i].value = <<>>
        /\ ~fields[j].notValid /\ fields[j].value # <<>>

\* C5: the form never holds more than one error banner.
C5_AtMostOneBanner == banners <= 1

\* C5 witness: the validator was registered twice on the container, and a
\* failing attempt ran both handlers and left one banner.
C5_Witness == handlers >= 2 /\ outcome = "blocked" /\ banners = 1

\* C6: a resize event calls jCenter on every open popup, of all four flows.
C6_ResizeRecentersOpen ==
    lastEvent = "resize" => \A f \in Flows : IsOpen(f) => f \in resizeCalls

\* C7: a resize event calls jCenter on no popup that has been closed.
C7_NoRecenterAfterClose ==
    lastEvent = "resize" => \A f \in resizeCalls : flow[f].detached = 0

\* C8: every popup node has exactly one closePopup registration once its flow
\* has nothing more to run.
C8_OneClosePopupPerNode ==
    \A f \in Flows : (HasNode(f) /\ Settled(f)) => flow[f].closeRegs = 1

\* C9: while the pending-jobs request is unanswered, and for ever once it has
\* failed, the flow's preloader is in the document and the flow has no popup
\* node attached or revealed.
C9_FailedKeepsPreloader ==
    [][\A f \in Flows :
            /\ (flow'[f].kind = "pending" /\ flow'[f].fetch \in {"pending", "failed"}) =>
                    flow'[f].preloader /\ ~flow'[f].attached /\ ~flow'[f].visible
            /\ (flow[f].fetch = "failed" => flow'[f].fetch = "failed")]_vars

\* C9 witness: a pending-jobs request has failed, another flow has been started
\* since and the window has been resized; the preloader is still there.
C9_Witness ==
    \E f, g \in Flows :
        /\ f < g /\ flow[g].kind # "none"
        /\ flow[f].kind = "pending" /\ flow[f].fetch = "failed"
        /\ flow[f].preloader
        /\ lastEvent = "resize"

\* The page's scheme, host and path, without query string and hash.
StrippedUrl(p) == p.scheme \o <<":", "/", "/">> \o p.host \o p.path

\* C10 as claimed: after a successful pending-jobs request with payload D the
\* preloader is gone and the template's data is D's fields plus actionUrl.
C10_SpreadContext ==
    \A f \in Flows :
        (flow[f].kind = "pending" /\ flow[f].fetch = "ok") =>
            /\ ~flow[f].preloader
            /\ flow[f].ctx =
                 {[jobs |-> d.jobs, actionUrl |-> flow[f].actionUrl] : d \in flow[f].data}

\* C10 as amended: the preloader is gone and the template's data is
\* {pendingJobs: D, actionUrl}, D whole under the key pendingJobs, where
\* actionUrl is the scheme, host and path of the page the flow was opened on,
\* without query string and hash.
C10_NestedContext ==
    [][\A f \in Flows :
            /\ (flow[f].kind = "none" /\ flow'[f].kind = "pending") =>
                    /\ flow'[f].actionUrl = StrippedUrl(page)
                    /\ IndexOf(flow'[f].actionUrl, "?") = 0
                    /\ IndexOf(flow'[f].actionUrl, "#") = 0
            /\ (flow[f].kind = "pending" /\ flow[f].fetch = "pending"
                    /\ flow'[f].fetch = "ok") =>
                    /\ ~flow'[f].preloader
                    /\ flow'[f].data \subseteq Payloads
                    /\ Cardinality(flow'[f].data) = 1
                    /\ flow'[f].ctx =
                         {[pendingJobs |-> d, actionUrl |-> flow[f].actionUrl] :
                             d \in flow'[f].data}]_vars

\* C10 witness: a pending-jobs popup rendered from a non-empty payload, opened
\* on a page whose URL had a query string and a hash.
C10_Witness ==
    \E f \in Flows :
        /\ flow[f].kind = "pending" /\ flow[f].fetch = "ok"
        /\ flow[f].data = {[jobs |-> <<"j1", "j2">>]}
        /\ page.query # <<>> /\ page.hash # <<>>
        /\ flow[f].actionUrl = StrippedUrl(page)
        /\ ~flow[f].preloader

\* C11 as claimed: the action attribute of a branch-selector flow's form is the
\* full URL the page had when the flow was opened.
C11_ActionIsUrlAtOpen ==
    \A f \in Flows :
        (flow[f].kind = "branch" /\ flow[f].fetch = "ok") =>
            flow[f].formAction = Href(flow[f].openPage)

\* C11 as amended: when the response of a branch-selector flow is handled, the
\* action attribute of the document's first #getForm is set to the full URL the
\* page has at that time; that form is the flow's own when no form of another
\* branch-selector response is in the document.
C11_ActionIsUrlAtResponse ==
    [][\A f \in Flows :
            (flow[f].kind = "branch" /\ flow[f].fetch = "pending"
                /\ flow'[f].fetch = "ok") =>
                /\ flow'[FirstGetForm(flow')].formAction = Href(page)
                /\ (\A g \in Flows \ {f} :
                        ~(flow[g].kind = "branch" /\ flow[g].fetch = "ok"
                            /\ flow[flow[g].slot].attached))
                     => flow'[f].formAction = Href(page)]_vars

\* C11 witness: the page URL changed between the opening of a branch-selector
\* flow and its response, and the form's action is the later URL.
C11_Witness ==
    \E f \in Flows :
        /\ flow[f].kind = "branch" /\ flow[f].fetch = "ok"
        /\ flow[f].openPage # page
        /\ flow[f].formAction = Href(page)

\* Position of the call named c in the flow's life-cycle trace, 0 when absent.
Pos(f, c) == IndexOf(flow[f].trace, c)

RemoteKinds == {"pending", "branch", "external"}

\* C12: an external-fragment flow whose contenttype is "form" has called
\* setFullName and validateForm before its popup is faded in; a flow with any
\* other contenttype never calls either.
C12_FormSetupBeforeReveal ==
    \A f \in Flows :
        flow[f].kind = "external" =>
            IF flow[f].contentType = "form"
            THEN Pos(f, "fadeIn") > 0 =>
                    /\ 0 < Pos(f, "setFullName")
                    /\ Pos(f, "setFullName") < Pos(f, "fadeIn")
                    /\ 0 < Pos(f, "validateForm")
                    /\ Pos(f, "validateForm") < Pos(f, "fadeIn")
            ELSE Pos(f, "setFullName") = 0 /\ Pos(f, "validateForm") = 0

\* C12 witness: a revealed form popup that ran both calls, next to a revealed
\* popup of another content type.
C12_Witness ==
    \E f, g \in Flows :
        /\ flow[f].kind = "external" /\ flow[f].contentType = "form"
        /\ flow[f].visible /\ Pos(f, "setFullName") > 0
        /\ flow[g].kind = "external" /\ flow[g].contentType = "other"
        /\ flow[g].visible

\* C13: a remote flow started while another is loading shows its own preloader
\* and issues its own request without touching the other; each success removes
\* the preloader of its own flow only; a flow that has succeeded has no
\* preloader and has its popup node.
C13_IndependentFetches ==
    /\ [](\A f \in Flows :
            (flow[f].kind \in RemoteKinds /\ flow[f].fetch = "ok") =>
                ~flow[f].preloader /\ HasNode(f))
    /\ [][\A f \in Flows :
            /\ (flow[f].kind = "none" /\ flow'[f].kind \in RemoteKinds) =>
                    /\ flow'[f].preloader /\ flow'[f].fetch = "pending"
                    /\ \A g \in Flows \ {f} : flow'[g] = flow[g]
            /\ (flow[f].fetch = "pending" /\ flow'[f].fetch = "ok") =>
                    /\ ~flow'[f].preloader
                    /\ \A g \in Flows \ {f} :
                            /\ flow'[g].preloader = flow[g].preloader
                            /\ flow'[g].fetch = flow[g].fetch]_vars

\* C13 witness: the flow started second has succeeded while the first is still
\* loading with its preloader in the document.
C13_Witness ==
    \E f, g \in Flows :
        /\ f < g
        /\ flow[f].kind \in RemoteKinds /\ flow[f].fetch = "pending"
        /\ flow[f].preloader
        /\ flow[g].kind \in RemoteKinds /\ flow[g].fetch = "ok"
        /\ ~flow[g].preloader /\ flow[g].attached

\* C15: a popup node is faded in only after it was attached and centered; in
\* a remote flow only after the response arrived and the preloader was
\* removed; a remote flow shows its preloader before it issues its request.
C15_LifeCycleOrder ==
    \A f \in Flows :
        /\ flow[f].visible => flow[f].attached /\ flow[f].positioned
        /\ Pos(f, "fadeIn") > 0 =>
                /\ 0 < Pos(f, "appendTo")
                /\ Pos(f, "appendTo") < Pos(f, "jCenter")
                /\ Pos(f, "jCenter") < Pos(f, "fadeIn")
        /\ (flow[f].kind \in RemoteKinds /\ Pos(f, "fadeIn") > 0) =>
                /\ 0 < Pos(f, "response")
                /\ Pos(f, "response") < Pos(f, "removePreloader")
                /\ Pos(f, "removePreloader") < Pos(f, "fadeIn")
        /\ flow[f].kind \in RemoteKinds =>
                /\ 0 < Pos(f, "preloader")
                /\ Pos(f, "preloader") < Pos(f, "fetch")

\* C15 witness: a static popup and a remote popup, both revealed.
C15_Witness ==
    \E f, g \in Flows :
        /\ flow[f].kind = "static" /\ flow[f].visible
        /\ flow[g].kind \in RemoteKinds /\ flow[g].visible

\* C17: the content of a branch-selector or external-fragment response is in
\* the content slot of the frame its own flow attached.
C17_ContentInOwnFrame ==
    \A f \in Flows :
        (flow[f].kind \in {"branch", "external"} /\ flow[f].fetch = "ok") =>
            flow[f].slot = f

\* C18: while the request of a branch-selector or external-fragment flow is
\* unanswered, and for ever once it has failed, the flow's frame is attached,
\* not centered (by the flow or by a resize event), not revealed, has no
\* closePopup and no resize registration, and the preloader is in the document.
C18_FailedFrameStays ==
    [][\A f \in Flows :
            /\ (flow'[f].kind \in {"branch", "external"}
                    /\ flow'[f].fetch \in {"pending", "failed"}) =>
                    /\ flow'[f].attached
                    /\ ~flow'[f].positioned /\ f \notin resizeCalls'
                    /\ ~flow'[f].visible
                    /\ flow'[f].closeRegs = 0 /\ flow'[f].resizeRegs = 0
                    /\ flow'[f].preloader
            /\ (flow[f].fetch = "failed" => flow'[f].fetch = "failed")]_vars

\* C18 witness: a frame whose request failed, after a resize event that ran
\* the class-wide handler of a branch-selector flow that did succeed.
C18_Witness ==
    \E f \in Flows :
        /\ flow[f].kind \in {"branch", "external"} /\ flow[f].fetch = "failed"
        /\ flow[f].attached /\ flow[f].preloader
        /\ classResize > 0 /\ lastEvent = "resize"

\* C16: after a submit attempt on a form some but not all of whose revision
\* fields are empty, a revision field is marked exactly when its value is
\* empty, the inline form-message is hidden and the default action has been
\* prevented.
C16_BlockedAttemptEffects ==
    (/\ outcome # "none" /\ handlers >= 1
     /\ \E i \in Rev(fields) : fields[i].value = <<>>
     /\ \E i \in Rev(fields) : fields[i].value # <<>>) =>
        /\ \A i \in Rev(fields) : fields[i].notValid = (fields[i].value = <<>>)
        /\ msgHidden
        /\ outcome = "blocked"

\* C16 witness: both registered handlers ran on a partial fill; the message
\* is hidden, an empty revision field is marked and a filled-in one is not.
C16_Witness ==
    /\ outcome = "blocked" /\ handlers = 2 /\ msgHidden
    /\ \E i, j \in Rev(fields) :
        /\ fields[i].value = <<>> /\ fields[i].notValid
        /\ fields[j].value # <<>> /\ ~fields[j].notValid

\* The inputs the block/allow decision is said to depend on: not a button, a
\* hidden field, a checkbox or a submit control, and "revision" in the name.
RevisionInputs(fs) ==
    {i \in Fields : /\ fs[i].type \notin {"button", "hidden", "checkbox", "submit"}
                    /\ Contains(fs[i].name, RevisionWord)}

\* The other inputs a form can hold in place of those that are not revision
\* inputs.
OtherInputs ==
    {[type |-> k.type, name |-> k.name, value |-> v, notValid |-> FALSE] :
        k \in {c \in FieldKinds : c.type \in {"button", "hidden", "checkbox", "submit"}
                                    \/ ~Contains(c.name, RevisionWord)},
        v \in Values}

\* The forms that agree with fs on its revision inputs.
Agreeing(fs) ==
    {[i \in Fields |-> IF i \in RevisionInputs(fs) THEN fs[i] ELSE h[i]] :
        h \in [Fields -> OtherInputs]}

\* Whether a click with n registered handlers is blocked on the form fs.
Blocked(fs, n) ==
    RunHandlers([fields |-> fs, msgHidden |-> FALSE, banners |-> 0,
                 prevented |-> FALSE], n).prevented

\* C19: the outcome of a submit attempt is the outcome of the attempt on every
\* form that agrees with this one on its revision inputs, whatever the other
\* inputs are; a form with no or one revision input is not blocked.
C19_OnlyRevisionInputsDecide ==
    (outcome # "none" /\ handlers >= 1) =>
        /\ \A g \in Agreeing(fields) :
                Blocked(g, handlers) = (outcome = "blocked")
        /\ Cardinality(RevisionInputs(fields)) <= 1 => outcome = "allowed"

\* C19 witness: one filled-in revision input next to an empty hidden input
\* named "revision"; the attempt was allowed.
C19_Witness ==
    /\ outcome = "allowed" /\ handlers >= 1
    /\ Cardinality(RevisionInputs(fields)) = 1
    /\ \A i \in RevisionInputs(fields) : fields[i].value # <<>>
    /\ \E i \in Fields :
        /\ fields[i].type = "hidden" /\ fields[i].name = RevisionWord
        /\ fields[i].value = <<>>

\* C14: a click on an element that carries a trigger marker prevents the
\* default action and calls the marker's open operation exactly once.
C14_OneDispatchPerClick ==
    lastClick.marker # "none" =>
        /\ lastClick.prevented >= 1
        /\ Len(lastClick.ops) = 1
        /\ lastClick.ops[1].op = OpOf(lastClick.marker)

\* C14, the case of a static-popup trigger inside the table: no click on such
\* an element calls nonAjaxPopup twice.
C14_TableTriggerOnce ==
    (lastClick.marker = "popup-btn-js-2" /\ lastClick.inTable) =>
        Len(lastClick.ops) <= 1

====
